---- MODULE Spec2Model ----
(***************************************************************************)
(* Model of the PR-comment detector and remover of                         *)
(* src/src/comment-detector.ts.  A document is a sequence of one-character *)
(* strings; all indices carried by annotations are the 0-based JavaScript  *)
(* indices of the source.                                                  *)
(***************************************************************************)
EXTENDS Integers, Sequences, FiniteSets, TLC

VARIABLES doc, opts, pc, comments, selected, result, comments2, optionsArg, wf, batch,
          scan

vars == <<doc, opts, pc, comments, selected, result, comments2, optionsArg, wf, batch, scan>>

detectorVars == <<doc, opts, pc, comments, selected, result, comments2, optionsArg>>

----------------------------------------------------------------------------
(* Bounds of the model *)

MaxFrags == 4

\* the most fragments of a document detected with an options argument
MaxOptionFrags == 2

\* the most fragments of a document an annotation of another document is
\* removed from
MaxStaleFrags == 3

\* the most supported files a pull request changes
MaxFiles == 2

\* the most requests of a batch passed to createComments directly
MaxRequests == 2

\* the most fragments of a line scanned on its own
MaxLineFrags == 4

\* RATE_LIMIT_CONFIG.maxRetries
maxRetries == 3

----------------------------------------------------------------------------
(* JavaScript string primitives *)

Min(a, b) == IF a < b THEN a ELSE b

Max(a, b) == IF a > b THEN a ELSE b

NL == "\n"

\* the characters the regular-expression class \s matches
IsSpace(c) == c \in {" ", "\n", "\t", "\r"}

\* the line terminators the regular-expression '.' does not match without /s
IsLineTerminator(c) == c \in {"\n", "\r"}

\* String.prototype.substring(a, b): both ends clamped to [0, length]
Substring(s, a, b) ==
  LET lo == Min(Max(Min(a, b), 0), Len(s))
      hi == Min(Max(Max(a, b), 0), Len(s))
  IN SubSeq(s, lo + 1, hi)

\* String.prototype.substring(a)
SubstringFrom(s, a) == Substring(s, a, Len(s))

\* 0-based index of the first "\n" at or after 0-based index i, Len(s) if none
RECURSIVE NextNewline(_, _)
NextNewline(s, i) ==
  IF i >= Len(s) THEN Len(s)
  ELSE IF s[i + 1] = NL THEN i
  ELSE NextNewline(s, i + 1)

\* String.prototype.split('\n')
RECURSIVE SplitFrom(_, _)
SplitFrom(s, i) ==
  LET j == NextNewline(s, i)
  IN IF j >= Len(s) THEN <<Substring(s, i, j)>>
     ELSE <<Substring(s, i, j)>> \o SplitFrom(s, j + 1)

Split(s) == SplitFrom(s, 0)

\* Array.prototype.join('\n')
RECURSIVE Join(_)
Join(ls) ==
  IF Len(ls) = 0 THEN <<>>
  ELSE IF Len(ls) = 1 THEN ls[1]
  ELSE ls[1] \o <<NL>> \o Join(Tail(ls))

\* 0-based index of the first character at or after i that is not \s
RECURSIVE SpaceRun(_, _)
SpaceRun(s, i) ==
  IF i < Len(s) /\ IsSpace(s[i + 1]) THEN SpaceRun(s, i + 1) ELSE i

\* String.prototype.trim()
RECURSIVE TrimEnd(_)
TrimEnd(s) ==
  IF Len(s) > 0 /\ IsSpace(s[Len(s)]) THEN TrimEnd(SubSeq(s, 1, Len(s) - 1)) ELSE s

\* trim() returning its receiver as it is
Trim_None(s) == s

Trim(s) == TrimEnd(SubstringFrom(s, SpaceRun(s, 0)))

\* case folding of the 'i' flag
Lower(c) == IF c = "P" THEN "p" ELSE IF c = "R" THEN "r" ELSE c

CharEq(a, b, caseSensitive) == IF caseSensitive THEN a = b ELSE Lower(a) = Lower(b)

----------------------------------------------------------------------------
(* Options *)

DEFAULT_OPTIONS ==
  [commentPrefix |-> <<"P", "R", ":">>, caseSensitive |-> FALSE,
   includeMultiline |-> TRUE, includeSingleLine |-> TRUE]

----------------------------------------------------------------------------
(* String-literal guard *)

\* the backtick character (the module's string syntax has no backtick)
Backtick == "BACKTICK"

\* the scan of isInsideStringLiteral letting a quote toggle its flag while a
\* quote of another type is open
RECURSIVE QuoteScan_Nesting(_, _, _)
QuoteScan_Nesting(before, i, q) ==
  IF i >= Len(before) THEN q
  ELSE
    LET char == before[i + 1]
        prevChar == IF i > 0 THEN before[i] ELSE ""
    IN IF prevChar = "\\" THEN QuoteScan_Nesting(before, i + 1, q)
       ELSE IF char = "'" THEN QuoteScan_Nesting(before, i + 1, <<~q[1], q[2], q[3]>>)
       ELSE IF char = "\"" THEN QuoteScan_Nesting(before, i + 1, <<q[1], ~q[2], q[3]>>)
       ELSE IF char = Backtick THEN QuoteScan_Nesting(before, i + 1, <<q[1], q[2], ~q[3]>>)
       ELSE QuoteScan_Nesting(before, i + 1, q)

\* the loop of isInsideStringLiteral over beforePosition, from 0-based index i,
\* with q = <<inSingleQuote, inDoubleQuote, inBacktick>>
RECURSIVE QuoteScan(_, _, _)
QuoteScan(before, i, q) ==
  IF i >= Len(before) THEN q
  ELSE
    LET char == before[i + 1]
        prevChar == IF i > 0 THEN before[i] ELSE ""
    IN IF prevChar = "\\" THEN QuoteScan(before, i + 1, q)
       ELSE IF char = "'" /\ ~q[2] /\ ~q[3] THEN QuoteScan(before, i + 1, <<~q[1], q[2], q[3]>>)
       ELSE IF char = "\"" /\ ~q[1] /\ ~q[3] THEN QuoteScan(before, i + 1, <<q[1], ~q[2], q[3]>>)
       ELSE IF char = Backtick /\ ~q[1] /\ ~q[2] THEN QuoteScan(before, i + 1, <<q[1], q[2], ~q[3]>>)
       ELSE QuoteScan(before, i + 1, q)

isInsideStringLiteral(line, position) ==
  LET q == QuoteScan(Substring(line, 0, position), 0, <<FALSE, FALSE, FALSE>>)
  IN q[1] \/ q[2] \/ q[3]

----------------------------------------------------------------------------
(* The regular expressions.  escapeRegExp makes the prefix match literally, *)
(* so a pattern is matched character by character; a match is a record, or  *)
(* NoMatch.                                                                  *)

NoMatch == [index |-> -1, end |-> -1, group |-> <<>>]

\* escapeRegExp(prefix) compiled into a pattern: the prefix, taken literally,
\* matches at 0-based index p
PrefixAt(s, p, prefix, caseSensitive) ==
  /\ p + Len(prefix) <= Len(s)
  /\ \A k \in 1..Len(prefix) : CharEq(s[p + k], prefix[k], caseSensitive)

\* \s*PREFIX from index p: the greedy \s* gives characters back until the
\* prefix matches; the index where the prefix starts, -1 if nowhere
PrefixStart(s, p, prefix, caseSensitive) ==
  LET cands == {q \in p..SpaceRun(s, p) : PrefixAt(s, q, prefix, caseSensitive)}
  IN IF cands = {} THEN -1 ELSE CHOOSE q \in cands : \A q2 \in cands : q2 <= q

\* (.*) from index r: every character up to the next line terminator
RECURSIVE DotRun(_, _)
DotRun(s, r) ==
  IF r < Len(s) /\ ~IsLineTerminator(s[r + 1]) THEN DotRun(s, r + 1) ELSE r

\* (.*?)\*/ from index r: index of the first star-slash that the dot can reach, -1 if none
RECURSIVE FindClose(_, _, _)
FindClose(s, r, dotAll) ==
  IF r + 2 > Len(s) THEN -1
  ELSE IF s[r + 1] = "*" /\ s[r + 2] = "/" THEN r
  ELSE IF ~dotAll /\ IsLineTerminator(s[r + 1]) THEN -1
  ELSE FindClose(s, r + 1, dotAll)

\* //\s*PREFIX\s*(.*) anchored at index i
SingleMatchAt(s, i, options) ==
  IF ~(i + 2 <= Len(s) /\ s[i + 1] = "/" /\ s[i + 2] = "/") THEN NoMatch
  ELSE
    LET q == PrefixStart(s, i + 2, options.commentPrefix, options.caseSensitive)
    IN IF q = -1 THEN NoMatch
       ELSE LET r == SpaceRun(s, q + Len(options.commentPrefix))
                e == DotRun(s, r)
            IN [index |-> i, end |-> e, group |-> Substring(s, r, e)]

\* /\*\s*PREFIX\s*(.*?)\*/ anchored at index i
BlockMatchAt(s, i, options, dotAll) ==
  IF ~(i + 2 <= Len(s) /\ s[i + 1] = "/" /\ s[i + 2] = "*") THEN NoMatch
  ELSE
    LET q == PrefixStart(s, i + 2, options.commentPrefix, options.caseSensitive)
    IN IF q = -1 THEN NoMatch
       ELSE LET r == SpaceRun(s, q + Len(options.commentPrefix))
                t == FindClose(s, r, dotAll)
            IN IF t = -1 THEN NoMatch
               ELSE [index |-> i, end |-> t + 2, group |-> Substring(s, r, t)]

\* pattern.exec(s) of the global single-line pattern with lastIndex = from
RECURSIVE SingleExec(_, _, _)
SingleExec(s, from, options) ==
  IF from >= Len(s) THEN NoMatch
  ELSE LET m == SingleMatchAt(s, from, options)
       IN IF m.index # -1 THEN m ELSE SingleExec(s, from + 1, options)

\* pattern.exec(s) of the global block pattern with lastIndex = from
RECURSIVE BlockExec(_, _, _, _)
BlockExec(s, from, options, dotAll) ==
  IF from >= Len(s) THEN NoMatch
  ELSE LET m == BlockMatchAt(s, from, options, dotAll)
       IN IF m.index # -1 THEN m ELSE BlockExec(s, from + 1, options, dotAll)

----------------------------------------------------------------------------
(* Detection *)

\* a PRComment object
PRComment(content, lineNumber, columnStart, columnEnd, type, fullMatch, startIndex, endIndex) ==
  [content |-> content, lineNumber |-> lineNumber, columnStart |-> columnStart,
   columnEnd |-> columnEnd, type |-> type, fullMatch |-> fullMatch,
   startIndex |-> startIndex, endIndex |-> endIndex]

\* the while loop of findSingleLineComments, the pattern's lastIndex being from
RECURSIVE SingleLoop(_, _, _, _, _)
SingleLoop(line, lineNumber, lineStartIndex, options, from) ==
  LET match == SingleExec(line, from, options)
  IN IF match.index = -1 THEN <<>>
     ELSE IF isInsideStringLiteral(line, match.index)
     THEN SingleLoop(line, lineNumber, lineStartIndex, options, match.end)
     ELSE <<PRComment(Trim(match.group), lineNumber, match.index, match.end, "single",
                      Substring(line, match.index, match.end),
                      lineStartIndex + match.index, lineStartIndex + match.end)>>
          \o SingleLoop(line, lineNumber, lineStartIndex, options, match.end)

findSingleLineComments(line, lineNumber, lineStartIndex, options) ==
  SingleLoop(line, lineNumber, lineStartIndex, options, 0)

\* the while loop of findInlineMultiComments, the pattern's lastIndex being from
RECURSIVE InlineLoop(_, _, _, _, _)
InlineLoop(line, lineNumber, lineStartIndex, options, from) ==
  LET match == BlockExec(line, from, options, FALSE)
  IN IF match.index = -1 THEN <<>>
     ELSE IF isInsideStringLiteral(line, match.index)
     THEN InlineLoop(line, lineNumber, lineStartIndex, options, match.end)
     ELSE <<PRComment(Trim(match.group), lineNumber, match.index, match.end, "multi",
                      Substring(line, match.index, match.end),
                      lineStartIndex + match.index, lineStartIndex + match.end)>>
          \o InlineLoop(line, lineNumber, lineStartIndex, options, match.end)

findInlineMultiComments(line, lineNumber, lineStartIndex, options) ==
  InlineLoop(line, lineNumber, lineStartIndex, options, 0)

\* findCommentsInLine running the inline block pass whatever includeMultiline says
findCommentsInLine_AlwaysInline(line, lineNumber, lineStartIndex, options) ==
  (IF options.includeSingleLine
   THEN findSingleLineComments(line, lineNumber, lineStartIndex, options) ELSE <<>>)
  \o findInlineMultiComments(line, lineNumber, lineStartIndex, options)

findCommentsInLine(line, lineNumber, lineStartIndex, options) ==
  (IF options.includeSingleLine
   THEN findSingleLineComments(line, lineNumber, lineStartIndex, options) ELSE <<>>)
  \o
  (IF options.includeMultiline
   THEN findInlineMultiComments(line, lineNumber, lineStartIndex, options) ELSE <<>>)

\* (s.match(/\n/g) || []).length
CountNewlines(s) == Cardinality({i \in 1..Len(s) : s[i] = NL})

\* lastIndexOf finding no newline in any text
LastNewlineIndex_NotFound(s) == -1

\* s.lastIndexOf('\n')
LastNewlineIndex(s) ==
  LET at == {i \in 1..Len(s) : s[i] = NL}
  IN IF at = {} THEN -1 ELSE (CHOOSE i \in at : \A j \in at : j <= i) - 1

\* s.replace(/\n\s*/g, ' ') from 0-based index i
RECURSIVE CollapseNewlines(_, _)
CollapseNewlines(s, i) ==
  IF i >= Len(s) THEN <<>>
  ELSE IF s[i + 1] = NL THEN <<" ">> \o CollapseNewlines(s, SpaceRun(s, i + 1))
  ELSE <<s[i + 1]>> \o CollapseNewlines(s, i + 1)

\* the while loop of findMultilineComments, the pattern's lastIndex being from
RECURSIVE MultilineLoop(_, _, _)
MultilineLoop(fileContent, options, from) ==
  LET match == BlockExec(fileContent, from, options, TRUE)
      beforeMatch == Substring(fileContent, 0, match.index)
      lineNumber == CountNewlines(beforeMatch) + 1
      lastNewlineIndex == LastNewlineIndex(beforeMatch)
      columnStart == IF lastNewlineIndex = -1 THEN match.index
                     ELSE match.index - lastNewlineIndex - 1
      currentLine == Split(fileContent)[lineNumber]
      endBeforeMatch == Substring(fileContent, 0, match.end)
      endLineNumber == CountNewlines(endBeforeMatch) + 1
      endLastNewlineIndex == LastNewlineIndex(endBeforeMatch)
      columnEnd == IF endLastNewlineIndex = -1 THEN match.end
                   ELSE match.end - endLastNewlineIndex - 1
  IN IF match.index = -1 THEN <<>>
     ELSE IF Len(currentLine) > 0 /\ isInsideStringLiteral(currentLine, columnStart)
     THEN MultilineLoop(fileContent, options, match.end)
     ELSE <<PRComment(Trim(CollapseNewlines(match.group, 0)), lineNumber, columnStart,
                      IF endLineNumber = lineNumber THEN columnEnd
                      ELSE columnStart + (match.end - match.index),
                      "multi", Substring(fileContent, match.index, match.end),
                      match.index, match.end)>>
          \o MultilineLoop(fileContent, options, match.end)

findMultilineComments(fileContent, options) == MultilineLoop(fileContent, options, 0)

\* LineLoop with the offset cursor left alone on an empty line
RECURSIVE LineLoop_EmptyLineNoAdvance(_, _, _, _)
LineLoop_EmptyLineNoAdvance(lines, lineIndex, currentIndex, options) ==
  IF lineIndex >= Len(lines) THEN <<>>
  ELSE LET line == lines[lineIndex + 1]
       IN IF Len(line) = 0
          THEN LineLoop_EmptyLineNoAdvance(lines, lineIndex + 1, currentIndex, options)
          ELSE findCommentsInLine(line, lineIndex + 1, currentIndex, options)
               \o LineLoop_EmptyLineNoAdvance(lines, lineIndex + 1,
                                              currentIndex + Len(line) + 1, options)

\* the for loop of detectPRComments over the lines, from 0-based lineIndex
RECURSIVE LineLoop(_, _, _, _)
LineLoop(lines, lineIndex, currentIndex, options) ==
  IF lineIndex >= Len(lines) THEN <<>>
  ELSE LET line == lines[lineIndex + 1]
       IN IF Len(line) = 0 THEN LineLoop(lines, lineIndex + 1, currentIndex + 1, options)
          ELSE findCommentsInLine(line, lineIndex + 1, currentIndex, options)
               \o LineLoop(lines, lineIndex + 1, currentIndex + Len(line) + 1, options)

\* UniqueMultiline with the duplicate filter left out
UniqueMultiline_NoFilter(multi, found) == multi

\* Array.prototype.filter: the entries of multi whose startIndex no entry of found has
UniqueMultiline(multi, found) ==
  SelectSeq(multi, LAMBDA m : ~\E k \in 1..Len(found) : found[k].startIndex = m.startIndex)

\* the stable Array.prototype.sort by ascending startIndex
RECURSIVE InsertByStart(_, _)
InsertByStart(sorted, c) ==
  IF Len(sorted) = 0 THEN <<c>>
  ELSE IF c.startIndex - sorted[Len(sorted)].startIndex >= 0 THEN Append(sorted, c)
  ELSE Append(InsertByStart(SubSeq(sorted, 1, Len(sorted) - 1), c), sorted[Len(sorted)])

\* SortByStart with the result left in detection order
SortByStart_Unsorted(cs) == cs

RECURSIVE SortByStart(_)
SortByStart(cs) ==
  IF Len(cs) = 0 THEN <<>>
  ELSE InsertByStart(SortByStart(SubSeq(cs, 1, Len(cs) - 1)), cs[Len(cs)])

detectPRComments(fileContent, options) ==
  LET found == LineLoop(Split(fileContent), 0, 0, options)
      all == IF options.includeMultiline
             THEN found \o UniqueMultiline(findMultilineComments(fileContent, options), found)
             ELSE found
  IN SortByStart(all)

\* a property of an options argument: <<>> is undefined, <<v>> is the value v
Undefined == <<>>

Defined(v) == <<v>>

\* { ...DEFAULT_OPTIONS, ...options }: every property options has, an undefined
\* one included, replaces the default
MergeOptions(options) ==
  [f \in DOMAIN DEFAULT_OPTIONS |->
     IF f \in DOMAIN options THEN options[f] ELSE Defined(DEFAULT_OPTIONS[f])]

\* the truthiness of a flag as the conditions on opts read it
Truthy(field) == field # Undefined /\ field[1]

\* string.replace(...) of escapeRegExp raises a TypeError on undefined
escapeRegExpThrows(string) == string = Undefined

\* a call of detectPRComments with the argument options: whether it threw and the
\* list it returned
detectPRCommentsCall(fileContent, options) ==
  LET merged == MergeOptions(options)
      includeSingleLine == Truthy(merged.includeSingleLine)
      includeMultiline == Truthy(merged.includeMultiline)
      lines == Split(fileContent)
      buildsPattern ==
        \/ includeMultiline
        \/ includeSingleLine /\ \E k \in 1..Len(lines) : Len(lines[k]) > 0
      optsOf == [commentPrefix |-> IF merged.commentPrefix = Undefined THEN <<>>
                                   ELSE merged.commentPrefix[1],
                 caseSensitive |-> Truthy(merged.caseSensitive),
                 includeMultiline |-> includeMultiline,
                 includeSingleLine |-> includeSingleLine]
  IN IF buildsPattern /\ escapeRegExpThrows(merged.commentPrefix)
     THEN [threw |-> TRUE, value |-> <<>>]
     ELSE [threw |-> FALSE, value |-> detectPRComments(fileContent, optsOf)]

----------------------------------------------------------------------------
(* Removal *)

\* lines.splice(k - 1, 1) for a 1-based k within the array
Splice(lines, k) == SubSeq(lines, 1, k - 1) \o SubSeq(lines, k + 1, Len(lines))

\* removePRComment leaving the line in place whatever surrounds the comment
removePRComment_NoLineDeletion(fileContent, comment) ==
  Substring(fileContent, 0, comment.startIndex) \o SubstringFrom(fileContent, comment.endIndex)

\* removePRComment deleting the line when either side of the comment is blank
removePRComment_EitherSideBlank(fileContent, comment) ==
  LET before == Substring(fileContent, 0, comment.startIndex)
      after == SubstringFrom(fileContent, comment.endIndex)
      lines == Split(fileContent)
      lineExists == comment.lineNumber >= 1 /\ comment.lineNumber <= Len(lines)
      line == lines[comment.lineNumber]
      beforeComment == Trim(Substring(line, 0, comment.columnStart))
      afterComment == Trim(SubstringFrom(line, comment.columnEnd))
  IN IF comment.type = "single"
     THEN IF ~lineExists \/ Len(line) = 0 THEN before \o after
          ELSE IF beforeComment = <<>> \/ afterComment = <<>>
          THEN Join(Splice(lines, comment.lineNumber))
          ELSE before \o after
     ELSE before \o after

\* removePRComment reading the nearest line when lineNumber names none
removePRComment_NearestLine(fileContent, comment) ==
  LET before == Substring(fileContent, 0, comment.startIndex)
      after == SubstringFrom(fileContent, comment.endIndex)
      lines == Split(fileContent)
      lineNumber == Max(1, Min(comment.lineNumber, Len(lines)))
      line == lines[lineNumber]
      beforeComment == Trim(Substring(line, 0, comment.columnStart))
      afterComment == Trim(SubstringFrom(line, comment.columnEnd))
  IN IF comment.type = "single"
     THEN IF Len(line) = 0 THEN before \o after
          ELSE IF beforeComment = <<>> /\ afterComment = <<>>
          THEN Join(Splice(lines, lineNumber))
          ELSE before \o after
     ELSE before \o after

\* removePRComment deleting a blank-surrounded comment's line whatever its type
removePRComment_AnyTypeLineDeletion(fileContent, comment) ==
  LET before == Substring(fileContent, 0, comment.startIndex)
      after == SubstringFrom(fileContent, comment.endIndex)
      lines == Split(fileContent)
      lineExists == comment.lineNumber >= 1 /\ comment.lineNumber <= Len(lines)
      line == lines[comment.lineNumber]
      beforeComment == Trim(Substring(line, 0, comment.columnStart))
      afterComment == Trim(SubstringFrom(line, comment.columnEnd))
  IN IF ~lineExists \/ Len(line) = 0 THEN before \o after
     ELSE IF beforeComment = <<>> /\ afterComment = <<>>
     THEN Join(Splice(lines, comment.lineNumber))
     ELSE before \o after

removePRComment(fileContent, comment) ==
  LET before == Substring(fileContent, 0, comment.startIndex)
      after == SubstringFrom(fileContent, comment.endIndex)
      lines == Split(fileContent)
      lineExists == comment.lineNumber >= 1 /\ comment.lineNumber <= Len(lines)
      line == lines[comment.lineNumber]
      beforeComment == Trim(Substring(line, 0, comment.columnStart))
      afterComment == Trim(SubstringFrom(line, comment.columnEnd))
  IN IF comment.type = "single"
     THEN IF ~lineExists \/ Len(line) = 0 THEN before \o after
          ELSE IF beforeComment = <<>> /\ afterComment = <<>>
          THEN Join(Splice(lines, comment.lineNumber))
          ELSE before \o after
     ELSE before \o after

\* the stable Array.prototype.sort by descending endIndex
RECURSIVE InsertByEndDesc(_, _)
InsertByEndDesc(sorted, c) ==
  IF Len(sorted) = 0 THEN <<c>>
  ELSE IF sorted[Len(sorted)].endIndex - c.endIndex >= 0 THEN Append(sorted, c)
  ELSE Append(InsertByEndDesc(SubSeq(sorted, 1, Len(sorted) - 1), c), sorted[Len(sorted)])

RECURSIVE SortByEndDesc(_)
SortByEndDesc(cs) ==
  IF Len(cs) = 0 THEN <<>>
  ELSE InsertByEndDesc(SortByEndDesc(SubSeq(cs, 1, Len(cs) - 1)), cs[Len(cs)])

\* the for loop of removePRComments over sortedComments
RECURSIVE RemoveLoop(_, _)
RemoveLoop(res, sortedComments) ==
  IF Len(sortedComments) = 0 THEN res
  ELSE RemoveLoop(removePRComment(res, sortedComments[1]), Tail(sortedComments))

removePRComments(fileContent, cs) == RemoveLoop(fileContent, SortByEndDesc(cs))

----------------------------------------------------------------------------
(* Documents and options the model explores *)

\* the pieces of text documents are assembled from
Fragments ==
  << <<"/", "/", " ", "P", "R", ":">>,
     <<"/", "*", " ", "P", "R", ":">>,
     <<"/", "*", " ", "P", "R", ":", " ", "x", " ", "*", "/">>,
     <<"*", "/">>,
     <<NL>>,
     <<" ">>,
     <<"c", "o", "d", "e", "(", ")", ";">>,
     <<"\"">>,
     <<"\\">> >>

RECURSIVE Flatten(_)
Flatten(fs) == IF Len(fs) = 0 THEN <<>> ELSE Fragments[fs[1]] \o Flatten(Tail(fs))

\* the documents of the written scenarios and of the removal test
ScenarioA ==
  <<"/", "/", " ", "P", "R", ":", " ", "f", "i", "x", " ", "t", "h", "i", "s", NL, "c",
     "o", "n", "s", "o", "l", "e", ".", "l", "o", "g", "(", "1", ")">>

ScenarioB ==
  <<"c", "o", "n", "s", "t", " ", "a", " ", "=", " ", "1", ";", " ", "/", "/", " ", "P",
     "R", ":", " ", "n", "o", "t", "e", NL>>

IndicesTestCode ==
  <<"/", "/", " ", "P", "R", ":", " ", "C", "o", "m", "m", "e", "n", "t", " ", "1", NL,
     "c", "o", "n", "s", "t", " ", "a", " ", "=", " ", "1", ";", NL, "/", "/", " ",
     "P", "R", ":", " ", "C", "o", "m", "m", "e", "n", "t", " ", "2", " ", " ", NL,
     "c", "o", "n", "s", "t", " ", "b", " ", "=", " ", "2", ";", NL, "/", "/", " ",
     "P", "R", ":", " ", "C", "o", "m", "m", "e", "n", "t", " ", "3", NL, "c", "o",
     "n", "s", "t", " ", "c", " ", "=", " ", "3", ";">>

ScenarioE ==
  <<"/", "/", " ", "P", "R", ":", NL, "/", "/", " ", "P", "R", ":", " ", " ", " ", NL>>

\* the document of the test of empty and whitespace-only comments
EmptyContentTestCode ==
  <<NL, "/", "/", " ", "P", "R", ":", NL, "/", "/", " ", "P", "R", ":", " ", " ", " ",
     NL, "/", "/", " ", "P", "R", ":", " ", "A", "c", "t", "u", "a", "l", " ", "c",
     "o", "n", "t", "e", "n", "t", NL, "/", "*", " ", "P", "R", ":", " ", "*", "/",
     NL, "/", "*", " ", "P", "R", ":", " ", " ", " ", "*", "/", NL>>

\* the document of the test of line numbers and positions
PositionsTestCode ==
  <<"L", "i", "n", "e", " ", "1", NL, "L", "i", "n", "e", " ", "2", NL, "/", "/", " ",
     "P", "R", ":", " ", "C", "o", "m", "m", "e", "n", "t", " ", "o", "n", " ", "l",
     "i", "n", "e", " ", "3", NL, "L", "i", "n", "e", " ", "4", NL, "/", "*", " ", "P",
     "R", ":", " ", "C", "o", "m", "m", "e", "n", "t", " ", "o", "n", " ", "l", "i",
     "n", "e", " ", "5", " ", "*", "/", NL, "L", "i", "n", "e", " ", "6">>

\* every document of at most MaxFrags fragments, and the scenario documents
Documents ==
  {Flatten(fs) : fs \in UNION {[1..n -> 1..Len(Fragments)] : n \in 0..MaxFrags}}
  \cup {ScenarioA, ScenarioB, ScenarioE, IndicesTestCode, EmptyContentTestCode,
        PositionsTestCode}

\* the options objects passed to detectPRComments, merged over DEFAULT_OPTIONS
OptionChoices ==
  {[DEFAULT_OPTIONS EXCEPT !.includeSingleLine = s, !.includeMultiline = m] :
     s \in BOOLEAN, m \in BOOLEAN}

\* the lists without repetition drawn from the entries of cs
RECURSIVE Arrangements(_)
Arrangements(idx) ==
  {<<>>} \cup UNION {{<<i>> \o r : r \in Arrangements(idx \ {i})} : i \in idx}

Selections(cs) == {[k \in 1..Len(a) |-> cs[a[k]]] : a \in Arrangements(1..Len(cs))}

\* a call that passes no options argument
NoOptions == [f \in {} |-> Undefined]

\* no workflow is running
NoWorkflow == [phase |-> "none"]

\* no batch of review comments is being created
NoBatch == [phase |-> "none"]

\* no line is being scanned
NoScan == [phase |-> "none"]

----------------------------------------------------------------------------
(* The state machine: a caller detects, removes a selection, detects again *)

Init ==
  /\ doc \in Documents
  /\ opts \in OptionChoices
  /\ pc = "start"
  /\ comments = <<>>
  /\ selected = <<>>
  /\ result = <<>>
  /\ comments2 = <<>>
  /\ optionsArg = NoOptions
  /\ wf = NoWorkflow
  /\ batch = NoBatch
  /\ scan = NoScan

Detect ==
  /\ pc = "start"
  /\ comments' = detectPRComments(doc, opts)
  /\ pc' = "detected"
  /\ UNCHANGED <<doc, opts, selected, result, comments2, optionsArg, wf, batch, scan>>

Remove ==
  /\ pc = "detected"
  /\ \E sel \in Selections(comments) :
       /\ selected' = sel
       /\ result' = removePRComments(doc, sel)
  /\ pc' = "removed"
  /\ UNCHANGED <<doc, opts, comments, comments2, optionsArg, wf, batch, scan>>

Redetect ==
  /\ pc = "removed"
  /\ comments2' = detectPRComments(result, opts)
  /\ pc' = "redetected"
  /\ UNCHANGED <<doc, opts, comments, selected, result, optionsArg, wf, batch, scan>>

Next == Detect \/ Remove \/ Redetect

Spec == Init /\ [][Next]_vars

----------------------------------------------------------------------------
(* Properties of detection *)

\* the annotation a lies within document d and its span reads back a.fullMatch
SpanValid(d, a) ==
  /\ 0 <= a.startIndex
  /\ a.startIndex < a.endIndex
  /\ a.endIndex <= Len(d)
  /\ Substring(d, a.startIndex, a.endIndex) = a.fullMatch

\* C1: every annotation detectPRComments returns satisfies
\* 0 <= startIndex < endIndex <= len(doc) and doc.substring(startIndex, endIndex)
\* = fullMatch, whichever pass found it, also after empty lines.
OffsetValidity ==
  /\ pc = "detected" => \A k \in 1..Len(comments) : SpanValid(doc, comments[k])
  /\ pc = "redetected" => \A k \in 1..Len(comments2) : SpanValid(result, comments2[k])

\* a detection over a document that starts with an empty line and holds both a
\* single-line and a block annotation
OffsetValidityWitness ==
  /\ pc = "detected"
  /\ Len(doc) > 0 /\ doc[1] = NL
  /\ \E k \in 1..Len(comments) : comments[k].type = "single"
  /\ \E k \in 1..Len(comments) : comments[k].type = "multi"

\* C2: any two distinct annotations detectPRComments returns have disjoint
\* spans [startIndex, endIndex), across kinds as well as within a kind.
NoOverlap ==
  pc = "detected" =>
    \A i, j \in 1..Len(comments) :
      i # j => \/ comments[i].endIndex <= comments[j].startIndex
               \/ comments[j].endIndex <= comments[i].startIndex

\* C3: the list detectPRComments returns is strictly ascending by startIndex,
\* for every combination of includeSingleLine and includeMultiline.
SortedStrictlyAscending ==
  pc = "detected" =>
    \A k \in 1..(Len(comments) - 1) : comments[k].startIndex < comments[k + 1].startIndex

\* a detection in which a block spanning lines, found by the last pass, comes
\* before a single-line annotation found by the first
SortedWitness ==
  /\ pc = "detected"
  /\ Len(comments) >= 2
  /\ comments[1].type = "multi" /\ \E i \in 1..Len(comments[1].fullMatch) : comments[1].fullMatch[i] = NL
  /\ comments[2].type = "single"

\* the block annotations the per-line inline pass finds in the document
InlineBlocks ==
  LineLoop(Split(doc), 0, 0, [opts EXCEPT !.includeSingleLine = FALSE, !.includeMultiline = TRUE])

\* the number of entries of cs that start at index s
OccurrencesAt(cs, s) == Cardinality({k \in 1..Len(cs) : cs[k].startIndex = s})

\* C4: a block annotation that starts and ends on one line appears exactly once
\* in the output of detectPRComments although two passes match it, also when
\* includeSingleLine is false.
DedupLaw ==
  (pc = "detected" /\ opts.includeMultiline) =>
    LET blocks == InlineBlocks
        multis == SelectSeq(comments, LAMBDA c : c.type = "multi")
    IN \A k \in 1..Len(blocks) :
         /\ OccurrencesAt(multis, blocks[k].startIndex) = 1
         /\ \E j \in 1..Len(comments) : comments[j] = blocks[k]

\* a detection without the single-line pass of a one-line block that the
\* full-document pass matches at the same index
DedupWitness ==
  /\ pc = "detected"
  /\ opts.includeMultiline /\ ~opts.includeSingleLine
  /\ \E k \in 1..Len(InlineBlocks) :
       \E m \in 1..Len(findMultilineComments(doc, opts)) :
         findMultilineComments(doc, opts)[m].startIndex = InlineBlocks[k].startIndex

\* the scan of a line up to position under the rule that a character is escaped
\* exactly when an unescaped backslash precedes it: q as in QuoteScan
RECURSIVE LexicalScan(_, _, _, _)
LexicalScan(before, i, escaped, q) ==
  IF i >= Len(before) THEN q
  ELSE
    LET char == before[i + 1]
    IN IF escaped THEN LexicalScan(before, i + 1, FALSE, q)
       ELSE IF char = "\\" THEN LexicalScan(before, i + 1, TRUE, q)
       ELSE IF char = "'" /\ ~q[2] /\ ~q[3] THEN LexicalScan(before, i + 1, FALSE, <<~q[1], q[2], q[3]>>)
       ELSE IF char = "\"" /\ ~q[1] /\ ~q[3] THEN LexicalScan(before, i + 1, FALSE, <<q[1], ~q[2], q[3]>>)
       ELSE IF char = Backtick /\ ~q[1] /\ ~q[2] THEN LexicalScan(before, i + 1, FALSE, <<q[1], q[2], ~q[3]>>)
       ELSE LexicalScan(before, i + 1, FALSE, q)

\* position lies inside a quoted string of the line
LiesInsideString(line, position) ==
  LET q == LexicalScan(Substring(line, 0, position), 0, FALSE, <<FALSE, FALSE, FALSE>>)
  IN q[1] \/ q[2] \/ q[3]

\* the annotation a of document d starts inside a quoted string of its line
StartsInsideString(d, a) == LiesInsideString(Split(d)[a.lineNumber], a.columnStart)

\* C5: an occurrence that lies inside a single-quoted, double-quoted or backtick
\* string is never returned by detectPRComments, also when escaped quotes or
\* escaped backslashes precede it.
StringSuppression ==
  pc = "detected" => \A k \in 1..Len(comments) : ~StartsInsideString(doc, comments[k])

----------------------------------------------------------------------------
(* Properties of removal *)

\* the entries of cs have pairwise disjoint spans
Disjoint(cs) ==
  \A i, j \in 1..Len(cs) :
    i # j => cs[i].endIndex <= cs[j].startIndex \/ cs[j].endIndex <= cs[i].startIndex

\* the removal was of every detected annotation
RemovedAll == Len(selected) = Len(comments)

\* C6: for a document whose annotations are all well-formed and outside string
\* literals, detecting again after removing every detected annotation returns
\* the empty list.
IdempotentEmptiness ==
  (/\ pc = "redetected"
   /\ selected = comments
   /\ Disjoint(comments)
   /\ \A k \in 1..Len(comments) : ~StartsInsideString(doc, comments[k]))
  => comments2 = <<>>

\* C7: removePRComments returns the same string for every permutation of the
\* list it is given, lists with two equal endIndex values included.
RemovalOrderIndependent ==
  pc = "removed" =>
    \A sel \in Selections(comments) :
      (Len(sel) = Len(selected) /\ \A k \in 1..Len(sel) : \E m \in 1..Len(selected) : sel[k] = selected[m])
      => removePRComments(doc, sel) = result

\* 0-based index p of document d lies inside the span of an entry of cs
InSpan(cs, p) == \E k \in 1..Len(cs) : cs[k].startIndex <= p /\ p < cs[k].endIndex

\* 1-based number of the line of d that holds index p (a newline belongs to the
\* line it ends)
LineOf(d, p) == CountNewlines(Substring(d, 0, p)) + 1

\* the lines of d that removing cs leaves empty: a single-line entry of cs starts
\* there and only whitespace lies outside the spans of cs
EmptiedLines(d, cs) ==
  {n \in 1..Len(Split(d)) :
     /\ \E k \in 1..Len(cs) : cs[k].type = "single" /\ cs[k].lineNumber = n
     /\ \A p \in 0..(Len(d) - 1) :
          (LineOf(d, p) = n /\ ~InSpan(cs, p)) => IsSpace(d[p + 1])}

\* removing cs from d may delete index p: it lies in a span, or it is whitespace
\* of an emptied line, or the line terminator before an emptied line
MayDelete(d, cs, p) ==
  \/ InSpan(cs, p)
  \/ IsSpace(d[p + 1]) /\ LineOf(d, p) \in EmptiedLines(d, cs)
  \/ d[p + 1] = NL /\ (LineOf(d, p) + 1) \in EmptiedLines(d, cs)

\* r is d from index i on, r from index j on, with only deletable indices dropped
RECURSIVE KeepsRest(_, _, _, _, _)
KeepsRest(d, cs, i, r, j) ==
  IF i >= Len(d) THEN j >= Len(r)
  ELSE \/ j < Len(r) /\ d[i + 1] = r[j + 1] /\ KeepsRest(d, cs, i + 1, r, j + 1)
       \/ MayDelete(d, cs, i) /\ KeepsRest(d, cs, i + 1, r, j)

\* the most characters removing cs from d may delete: the spans, the blanks of
\* the emptied lines and one line terminator for each
DeletionBudget(d, cs) ==
  Cardinality({p \in 0..(Len(d) - 1) :
                 \/ InSpan(cs, p)
                 \/ d[p + 1] # NL /\ IsSpace(d[p + 1]) /\ LineOf(d, p) \in EmptiedLines(d, cs)})
  + Cardinality(EmptiedLines(d, cs))

\* C8: removing a subset of the detected annotations deletes only characters
\* inside their spans, plus the whitespace and the one line terminator of a line
\* a removed single-line annotation leaves empty; every other character is kept
\* in order.
RemovalPreservesSurroundings ==
  pc = "removed" =>
    /\ KeepsRest(doc, selected, 0, result, 0)
    /\ Len(doc) - Len(result) <= DeletionBudget(doc, selected)

\* only whitespace surrounds the annotation a on its line of d
AloneOnLine(d, a) ==
  LET line == Split(d)[a.lineNumber]
  IN \A i \in 1..Len(line) : (i <= a.columnStart \/ i > a.columnEnd) => IsSpace(line[i])

\* 0-based offset in d of the first character of line n
RECURSIVE LineOffset(_, _)
LineOffset(d, n) == IF n <= 1 THEN 0 ELSE NextNewline(d, LineOffset(d, n - 1)) + 1

\* d without its line n and without one line terminator of that line
WithoutLine(d, n) ==
  LET start == LineOffset(d, n)
      end == NextNewline(d, start)
  IN IF end < Len(d) THEN Substring(d, 0, start) \o SubstringFrom(d, end + 1)
     ELSE Substring(d, 0, start - 1)

\* the lines of ls, numbered from n, on which no entry of cs starts
RECURSIVE CodeLines(_, _, _)
CodeLines(ls, n, cs) ==
  IF Len(ls) = 0 THEN <<>>
  ELSE (IF \E k \in 1..Len(cs) : cs[k].lineNumber = n THEN <<>> ELSE <<ls[1]>>)
       \o CodeLines(Tail(ls), n + 1, cs)

\* C9: removing a single-line annotation that is alone on its line splices the
\* whole line out, leading whitespace and line terminator included, and removing
\* every annotation of a document of whole-line comments and code lines yields
\* the code lines joined by single newlines.
WholeLineDeletion ==
  /\ (/\ pc = "removed"
      /\ Len(selected) = 1
      /\ selected[1].type = "single"
      /\ AloneOnLine(doc, selected[1]))
     => result = WithoutLine(doc, selected[1].lineNumber)
  /\ (/\ pc = "removed"
      /\ RemovedAll
      /\ \A k \in 1..Len(comments) :
           comments[k].type = "single" /\ AloneOnLine(doc, comments[k]))
     => result = Join(CodeLines(Split(doc), 1, comments))

\* the three whole-line comments of the removal test, all removed
WholeLineDeletionWitness ==
  /\ pc = "removed"
  /\ doc = IndicesTestCode
  /\ Len(comments) = 3
  /\ selected = comments
  /\ Len(result) < Len(doc)

\* the removal of every annotation detected in ScenarioB with default options
ScenarioBRemoved ==
  /\ pc = "removed"
  /\ doc = ScenarioB
  /\ opts = DEFAULT_OPTIONS
  /\ selected = comments

\* C10: for ScenarioB detection returns one single-line annotation and removal
\* returns the code and the newline with nothing between them.
TrailingCommentNoResidue ==
  ScenarioBRemoved =>
    /\ Len(comments) = 1 /\ comments[1].type = "single"
    /\ result = <<"c", "o", "n", "s", "t", " ", "a", " ", "=", " ", "1", ";", NL>>

\* C10 as amended: for ScenarioB detection returns one single-line annotation
\* and removal excises its span only, so the space that preceded the comment
\* stays between the code and the newline.
TrailingCommentExcised ==
  ScenarioBRemoved =>
    /\ Len(comments) = 1 /\ comments[1].type = "single"
    /\ result = <<"c", "o", "n", "s", "t", " ", "a", " ", "=", " ", "1", ";", " ", NL>>

\* ScenarioB with its one annotation removed and the line kept
TrailingCommentWitness ==
  /\ ScenarioBRemoved
  /\ Len(selected) = 1
  /\ CountNewlines(result) = 1

\* the removal of exactly one annotation of type multi
OneBlockRemoved ==
  /\ pc = "removed"
  /\ Len(selected) = 1
  /\ selected[1].type = "multi"

\* C11: removing one block annotation returns the text before its span followed
\* by the text after it, whatever else its line holds, so the newlines outside
\* the span are all kept.
BlockRemovalIsExcision ==
  OneBlockRemoved =>
    /\ result = Substring(doc, 0, selected[1].startIndex)
                  \o SubstringFrom(doc, selected[1].endIndex)
    /\ CountNewlines(result) =
         CountNewlines(doc) - CountNewlines(selected[1].fullMatch)

\* a block comment that is the only content of its line, removed with the
\* line terminator left in place
BlockRemovalWitness ==
  /\ OneBlockRemoved
  /\ AloneOnLine(doc, selected[1])
  /\ CountNewlines(doc) > 0
  /\ CountNewlines(result) = CountNewlines(doc)

\* the line is an opener, whitespace, the prefix and then whitespace only,
\* closed by closer when closer is not empty
EmptyPayloadLine(line, opener, closer, prefix) ==
  \E p \in 2..Len(line) :
    /\ SubSeq(line, 1, 2) = opener
    /\ \A i \in 3..p : IsSpace(line[i])
    /\ p + Len(prefix) + Len(closer) <= Len(line)
    /\ \A k \in 1..Len(prefix) : Lower(line[p + k]) = Lower(prefix[k])
    /\ \A i \in (p + Len(prefix) + 1)..(Len(line) - Len(closer)) : IsSpace(line[i])
    /\ SubSeq(line, Len(line) - Len(closer) + 1, Len(line)) = closer

\* comments holds an annotation of type t with empty content starting at line n
EmptyAnnotationAt(n, t) ==
  \E k \in 1..Len(comments) :
    /\ comments[k].startIndex = LineOffset(doc, n)
    /\ comments[k].type = t
    /\ comments[k].content = <<>>

\* C16: every content is trimmed and holds no newline; a line that is a comment
\* of the prefix with nothing or only whitespace after the prefix yields an
\* annotation with empty content, as in Scenario E and in the test of empty
\* comments.
EmptyContentEmitted ==
  pc = "detected" =>
    /\ \A k \in 1..Len(comments) :
         LET content == comments[k].content
         IN /\ \A i \in 1..Len(content) : content[i] # NL
            /\ Len(content) > 0 =>
                 ~IsSpace(content[1]) /\ ~IsSpace(content[Len(content)])
    /\ \A n \in 1..Len(Split(doc)) :
         /\ (/\ opts.includeSingleLine
             /\ EmptyPayloadLine(Split(doc)[n], <<"/", "/">>, <<>>, opts.commentPrefix))
            => EmptyAnnotationAt(n, "single")
         /\ (/\ opts.includeMultiline
             /\ EmptyPayloadLine(Split(doc)[n], <<"/", "*">>, <<"*", "/">>,
                                 opts.commentPrefix))
            => EmptyAnnotationAt(n, "multi")
    /\ (doc = ScenarioE /\ opts = DEFAULT_OPTIONS) =>
         /\ Len(comments) = 2
         /\ \A k \in 1..2 : comments[k].content = <<>>
    /\ (doc = EmptyContentTestCode /\ opts = DEFAULT_OPTIONS) =>
         /\ Len(comments) = 5
         /\ \A k \in {1, 2, 4, 5} : comments[k].content = <<>>
         /\ comments[3].content =
              <<"A", "c", "t", "u", "a", "l", " ", "c", "o", "n", "t", "e", "n", "t">>

\* Scenario E detected: a bare prefix and a prefix followed by spaces
EmptyContentWitness ==
  /\ pc = "detected"
  /\ doc = ScenarioE
  /\ opts = DEFAULT_OPTIONS
  /\ EmptyAnnotationAt(1, "single")
  /\ EmptyAnnotationAt(2, "single")

\* the annotations of the sequence cs, as a set
Range(cs) == {cs[k] : k \in 1..Len(cs)}

\* C17: without includeSingleLine no annotation is of type single, without
\* includeMultiline none is of type multi, and with both flags the result holds
\* exactly the annotations found with one flag at a time.
PassSelection ==
  pc = "detected" =>
    /\ ~opts.includeSingleLine => \A k \in 1..Len(comments) : comments[k].type # "single"
    /\ ~opts.includeMultiline => \A k \in 1..Len(comments) : comments[k].type # "multi"
    /\ (opts.includeSingleLine /\ opts.includeMultiline) =>
         LET singles == detectPRComments(doc, [opts EXCEPT !.includeMultiline = FALSE])
             blocks == detectPRComments(doc, [opts EXCEPT !.includeSingleLine = FALSE])
         IN /\ Range(comments) = Range(singles) \cup Range(blocks)
            /\ Len(comments) = Len(singles) + Len(blocks)

\* a document holding both kinds of comment, detected with the block passes
\* switched off
PassSelectionWitness ==
  /\ pc = "detected"
  /\ ~opts.includeMultiline
  /\ opts.includeSingleLine
  /\ Len(comments) > 0
  /\ Len(detectPRComments(doc, DEFAULT_OPTIONS)) > Len(comments)

\* C18: the line number of every annotation is one more than the number of
\* newlines in front of its start offset, and its start column is the distance
\* of that offset from the first character of the line, in the per-line passes
\* and in the full-document pass alike.
PositionConsistency ==
  pc = "detected" =>
    /\ \A k \in 1..Len(comments) :
         LET a == comments[k]
         IN /\ a.lineNumber = 1 + Cardinality({i \in 1..a.startIndex : doc[i] = NL})
            /\ a.columnStart = a.startIndex - LineOffset(doc, a.lineNumber)
    /\ (doc = PositionsTestCode /\ opts = DEFAULT_OPTIONS) =>
         /\ Len(comments) = 2
         /\ comments[1].lineNumber = 3 /\ comments[1].columnStart = 0
         /\ comments[2].lineNumber = 5 /\ comments[2].columnStart = 0

\* a block comment that starts below the first line and spans two lines, so
\* that only the full-document pass finds it
PositionConsistencyWitness ==
  /\ pc = "detected"
  /\ \E k \in 1..Len(comments) :
       /\ comments[k].type = "multi"
       /\ comments[k].lineNumber >= 2
       /\ CountNewlines(comments[k].fullMatch) > 0

----------------------------------------------------------------------------
(* Detection called with an options argument *)

\* the values a caller gives commentPrefix and a flag, undefined included
PrefixArgs == {Undefined, Defined(<<>>), Defined(DEFAULT_OPTIONS.commentPrefix)}

FlagArgs == {Undefined, Defined(TRUE), Defined(FALSE)}

\* every Partial<DetectionOptions>: any subset of the properties, each with
\* any of its values
PartialOptions ==
  {[f \in S |-> full[f]] :
     S \in SUBSET (DOMAIN DEFAULT_OPTIONS),
     full \in [commentPrefix : PrefixArgs, caseSensitive : FlagArgs,
               includeMultiline : FlagArgs, includeSingleLine : FlagArgs]}

OptionDocuments ==
  {Flatten(fs) : fs \in UNION {[1..n -> 1..Len(Fragments)] : n \in 0..MaxOptionFrags}}

InitOptions ==
  /\ doc \in OptionDocuments
  /\ optionsArg \in PartialOptions
  /\ pc = "call"
  /\ opts = DEFAULT_OPTIONS
  /\ comments = <<>>
  /\ selected = <<>>
  /\ result = <<>>
  /\ comments2 = <<>>
  /\ wf = NoWorkflow
  /\ batch = NoBatch
  /\ scan = NoScan

DetectWithOptions ==
  /\ pc = "call"
  /\ \E call \in {detectPRCommentsCall(doc, optionsArg)} :
       /\ pc' = IF call.threw THEN "threw" ELSE "returned"
       /\ comments' = call.value
  /\ UNCHANGED <<doc, opts, selected, result, comments2, optionsArg, wf, batch, scan>>

NextOptions == DetectWithOptions

SpecOptions == InitOptions /\ [][NextOptions]_vars

\* the call has ended, by returning or by throwing
CallEnded == pc \in {"returned", "threw"}

\* options without its commentPrefix property
WithoutPrefix(o) == [f \in DOMAIN o \ {"commentPrefix"} |-> o[f]]

\* C12: a call whose commentPrefix is missing, undefined or the empty string
\* returns, and returns the list that the same call without a commentPrefix
\* returns.
PrefixFallback ==
  (/\ CallEnded
   /\ \/ "commentPrefix" \notin DOMAIN optionsArg
      \/ optionsArg.commentPrefix \in {Undefined, Defined(<<>>)})
  => /\ pc = "returned"
     /\ comments = detectPRCommentsCall(doc, WithoutPrefix(optionsArg)).value

\* C13: no call of detectPRComments throws, whatever properties the options
\* argument has and whichever of them are undefined, and a document without
\* any comment opener yields the empty list.
NeverThrows ==
  CallEnded =>
    /\ pc = "returned"
    /\ (\A i \in 1..Len(doc) : doc[i] # "/") => comments = <<>>

----------------------------------------------------------------------------
(* Removal of an annotation that was detected in another document *)

\* the documents the stale annotations were detected in
StaleOrigins ==
  {Flatten(<<1>>), Flatten(<<5, 1>>), Flatten(<<5, 5, 1>>), Flatten(<<6, 1>>),
   Flatten(<<7, 1>>), Flatten(<<7, 5, 1>>), Flatten(<<3>>), Flatten(<<5, 3>>),
   Flatten(<<2, 5, 4>>)}

\* an annotation as detected, and with its line number set to 0
StaleCopies(cs) ==
  {cs[k] : k \in 1..Len(cs)} \cup {[cs[k] EXCEPT !.lineNumber = 0] : k \in 1..Len(cs)}

\* the annotations detected in the origins, and their copies of line 0
StaleAnnotations ==
  UNION {StaleCopies(detectPRComments(o, DEFAULT_OPTIONS)) : o \in StaleOrigins}

StaleDocuments ==
  {Flatten(fs) : fs \in UNION {[1..n -> 1..Len(Fragments)] : n \in 0..MaxStaleFrags}}

InitStale ==
  /\ doc \in StaleDocuments
  /\ selected \in {<<a>> : a \in StaleAnnotations}
  /\ pc = "stale"
  /\ opts = DEFAULT_OPTIONS
  /\ comments = <<>>
  /\ result = <<>>
  /\ comments2 = <<>>
  /\ optionsArg = NoOptions
  /\ wf = NoWorkflow
  /\ batch = NoBatch
  /\ scan = NoScan

RemoveStale ==
  /\ pc = "stale"
  /\ result' = removePRComment(doc, selected[1])
  /\ pc' = "excised"
  /\ UNCHANGED <<doc, opts, comments, selected, comments2, optionsArg, wf, batch, scan>>

NextStale == RemoveStale

SpecStale == InitStale /\ [][NextStale]_vars

\* fileContent without the span of the annotation a
Excision(fileContent, a) ==
  Substring(fileContent, 0, a.startIndex) \o SubstringFrom(fileContent, a.endIndex)

\* C14: removing a single-line annotation whose line number is below 1 or
\* above the number of lines of the document returns the text before its span
\* followed by the text after it.
OutOfRangeLineFallback ==
  (/\ pc = "excised"
   /\ selected[1].type = "single"
   /\ \/ selected[1].lineNumber < 1
      \/ selected[1].lineNumber > Len(Split(doc)))
  => result = Excision(doc, selected[1])

\* an annotation of line 2 removed from a one-line document that has text at
\* the annotation's offsets
OutOfRangeLineWitness ==
  /\ pc = "excised"
  /\ selected[1].type = "single"
  /\ selected[1].lineNumber > Len(Split(doc))
  /\ selected[1].lineNumber = 2
  /\ Len(doc) > selected[1].endIndex
  /\ Len(result) = Len(doc) - Len(selected[1].fullMatch)

\* the annotation a is found in d at its offsets, on its line, at its column
Located(d, a) ==
  /\ a.lineNumber >= 1 /\ a.lineNumber <= Len(Split(d))
  /\ a.startIndex = LineOffset(d, a.lineNumber) + a.columnStart
  /\ Substring(d, a.startIndex, a.endIndex) = a.fullMatch

\* C15: removing an annotation that is not found in the document at its
\* offsets, line and column returns the text before its span followed by the
\* text after it; no line is deleted.
MalformedExcision ==
  (pc = "excised" /\ ~Located(doc, selected[1]))
  => result = Excision(doc, selected[1])

----------------------------------------------------------------------------
(* PRCommentCreator.createComments: a batch of review comment requests *)

\* file names, in the order of localeCompare
FileNames == <<"a.js", "b.js", "c.js", "d.js">>

localeCompare(a, b) ==
  (CHOOSE i \in 1..Len(FileNames) : FileNames[i] = a)
  - (CHOOSE i \in 1..Len(FileNames) : FileNames[i] = b)

\* the comparator of the sort in createComments
CompareRequests(a, b) ==
  IF a.filename # b.filename THEN localeCompare(a.filename, b.filename)
  ELSE a.line - b.line

\* the stable Array.prototype.sort by file name and line
RECURSIVE InsertByRequest(_, _)
InsertByRequest(sorted, r) ==
  IF Len(sorted) = 0 THEN <<r>>
  ELSE IF CompareRequests(sorted[Len(sorted)], r) <= 0 THEN Append(sorted, r)
  ELSE Append(InsertByRequest(SubSeq(sorted, 1, Len(sorted) - 1), r), sorted[Len(sorted)])

\* the sort leaving the requests in the order given
SortRequests_Unsorted(requests) == requests

RECURSIVE SortRequests(_)
SortRequests(requests) ==
  IF Len(requests) = 0 THEN <<>>
  ELSE InsertByRequest(SortRequests(SubSeq(requests, 1, Len(requests) - 1)),
                       requests[Len(requests)])

\* this.options.retryAttempts || 3, where 0 stands for a falsy option
RetryAttempts(b) == IF b.retryAttempts = 0 THEN 3 ELSE b.retryAttempts

\* a call of createComments(requests) on a creator with the given options
BatchCall(requests, dryRun, repositoryValid, retryAttempts) ==
  [phase |-> "called", requests |-> requests, dryRun |-> dryRun,
   repositoryValid |-> repositoryValid, retryAttempts |-> retryAttempts,
   sortedRequests |-> <<>>, i |-> 0, attempt |-> 1, handled |-> <<>>, apiCalls |-> <<>>,
   result |-> [totalRequests |-> 0, successfulComments |-> 0, failedComments |-> 0,
               createdComments |-> <<>>, errors |-> <<>>]]

\* the batch b after request i has been recorded as created
Created(b) ==
  [b EXCEPT !.i = @ + 1, !.attempt = 1,
            !.handled = Append(@, b.sortedRequests[b.i + 1]),
            !.result.successfulComments = @ + 1,
            !.result.createdComments = Append(@, b.sortedRequests[b.i + 1])]

\* the batch b after request i has been recorded as failed
Failed(b) ==
  [b EXCEPT !.i = @ + 1, !.attempt = 1,
            !.handled = Append(@, b.sortedRequests[b.i + 1]),
            !.result.failedComments = @ + 1,
            !.result.errors = Append(@, b.sortedRequests[b.i + 1])]

\* createComments starts: an empty list returns at once, otherwise the
\* requests are sorted and the loop begins at i = 0
BeginCreateComments ==
  /\ batch.phase = "called"
  /\ batch' = IF Len(batch.requests) = 0
              THEN [batch EXCEPT !.phase = "returned"]
              ELSE [batch EXCEPT !.phase = "running",
                                 !.result.totalRequests = Len(batch.requests),
                                 !.sortedRequests = SortRequests(batch.requests)]
  /\ UNCHANGED <<detectorVars, wf, scan>>

\* the loop is at request i
AtRequest == batch.phase = "running" /\ batch.i < Len(batch.sortedRequests)

\* createComment in a dry run: success without any API call
DryRunComment ==
  /\ AtRequest
  /\ batch.dryRun
  /\ batch' = Created(batch)
  /\ UNCHANGED <<detectorVars, wf, scan>>

\* createComment throws in parseRepository: createCommentWithRetry tries again
\* until the attempts are used up, then reports the failure
CreateCommentThrows ==
  /\ AtRequest
  /\ ~batch.dryRun /\ ~batch.repositoryValid
  /\ batch' = IF batch.attempt < RetryAttempts(batch)
              THEN [batch EXCEPT !.attempt = @ + 1]
              ELSE Failed(batch)
  /\ UNCHANGED <<detectorVars, wf, scan>>

\* the createReviewComment call succeeds
ApiCallSucceeds ==
  /\ AtRequest
  /\ ~batch.dryRun /\ batch.repositoryValid
  /\ batch' = Created([batch EXCEPT !.apiCalls = Append(@, [i |-> batch.i, ok |-> TRUE])])
  /\ UNCHANGED <<detectorVars, wf, scan>>

\* the createReviewComment call fails: createComment catches the error and
\* returns success: false, which createCommentWithRetry returns as it is
ApiCallFails ==
  /\ AtRequest
  /\ ~batch.dryRun /\ batch.repositoryValid
  /\ batch' = Failed([batch EXCEPT !.apiCalls = Append(@, [i |-> batch.i, ok |-> FALSE])])
  /\ UNCHANGED <<detectorVars, wf, scan>>

\* the loop is over: createComments returns its result
EndCreateComments ==
  /\ batch.phase = "running"
  /\ batch.i >= Len(batch.sortedRequests)
  /\ batch' = [batch EXCEPT !.phase = "returned"]
  /\ UNCHANGED <<detectorVars, wf, scan>>

CreateCommentsStep ==
  \/ BeginCreateComments
  \/ DryRunComment
  \/ CreateCommentThrows
  \/ ApiCallSucceeds
  \/ ApiCallFails
  \/ EndCreateComments

\* the requests a caller passes
RequestLists ==
  UNION {[1..n -> [filename : {FileNames[1], FileNames[2]}, line : 1..2]] :
           n \in 0..MaxRequests}

InitBatch ==
  /\ batch \in {BatchCall(requests, dryRun, repositoryValid, retryAttempts) :
                  requests \in RequestLists, dryRun \in BOOLEAN,
                  repositoryValid \in BOOLEAN, retryAttempts \in 0..maxRetries}
  /\ doc = <<>>
  /\ opts = DEFAULT_OPTIONS
  /\ pc = "batch"
  /\ comments = <<>>
  /\ selected = <<>>
  /\ result = <<>>
  /\ comments2 = <<>>
  /\ optionsArg = NoOptions
  /\ wf = NoWorkflow
  /\ scan = NoScan

NextBatch == CreateCommentsStep

SpecBatch == InitBatch /\ [][NextBatch]_vars

----------------------------------------------------------------------------
(* The workflow of PRWorkflowCoordinator.executeWorkflow *)

SUPPORTED_EXTENSIONS == {".js", ".jsx", ".ts", ".tsx", ".mjs", ".cjs"}

\* the contents of the changed files: code, a comment, code with a comment
WorkflowContents == {Flatten(<<7>>), Flatten(<<1>>), Flatten(<<7, 1>>)}

\* what the k-th changed file can be: a supported file with some content whose
\* fetch may fail, a file of another type, or a removed file
FileChoices(k) ==
  {[filename |-> FileNames[k], extension |-> ".ts", status |-> "modified",
    content |-> c, fetchFails |-> f] : c \in WorkflowContents, f \in BOOLEAN}
  \cup {[filename |-> FileNames[k], extension |-> ".md", status |-> "modified",
         content |-> Flatten(<<1>>), fetchFails |-> FALSE],
        [filename |-> FileNames[k], extension |-> ".ts", status |-> "removed",
         content |-> Flatten(<<1>>), fetchFails |-> FALSE]}

\* the lists of files changed in the pull request
ChangedFiles ==
  UNION {{fl \in [1..n -> UNION {FileChoices(k) : k \in 1..n}] :
            \A k \in 1..n : fl[k] \in FileChoices(k)} : n \in 0..MaxFiles}

isSupportedFile(file) == file.extension \in SUPPORTED_EXTENSIONS

\* the filter of processFiles
SupportedFiles(changedFiles) ==
  SelectSeq(changedFiles, LAMBDA file : isSupportedFile(file) /\ file.status # "removed")

\* processFile keeping the comments in the content in a dry run or not
ProcessedFile_IgnoreDryRun(file, found, dryRun) ==
  [filename |-> file.filename,
   comments |-> found,
   originalContent |-> file.content,
   modifiedContent |-> IF Len(found) > 0
                       THEN removePRComments(file.content, found)
                       ELSE file.content]

\* FileProcessor.processFile once the content has been fetched
ProcessedFile(file, found, dryRun) ==
  [filename |-> file.filename,
   comments |-> found,
   originalContent |-> file.content,
   modifiedContent |-> IF Len(found) > 0 /\ ~dryRun
                       THEN removePRComments(file.content, found)
                       ELSE file.content]

processFile(file, dryRun) ==
  ProcessedFile(file,
                detectPRCommentsCall(
                  file.content,
                  [commentPrefix |-> Defined(DEFAULT_OPTIONS.commentPrefix)]).value,
                dryRun)

\* the loop of processFiles giving up at the first file that fails
RECURSIVE ProcessedFiles_AbortOnFailure(_, _)
ProcessedFiles_AbortOnFailure(files, dryRun) ==
  IF Len(files) = 0 \/ files[1].fetchFails THEN <<>>
  ELSE <<processFile(files[1], dryRun)>> \o ProcessedFiles_AbortOnFailure(Tail(files), dryRun)

\* the loop of FileProcessor.processFiles: the files whose processing succeeded
RECURSIVE ProcessedFiles(_, _)
ProcessedFiles(files, dryRun) ==
  IF Len(files) = 0 THEN <<>>
  ELSE (IF files[1].fetchFails THEN <<>> ELSE <<processFile(files[1], dryRun)>>)
       \o ProcessedFiles(Tail(files), dryRun)

\* one error entry of the given phase per failure
Errors(phase, n) == [k \in 1..n |-> phase]

\* the loop of processFiles: the names of the files whose processing threw
RECURSIVE SkippedFiles(_)
SkippedFiles(files) ==
  IF Len(files) = 0 THEN <<>>
  ELSE (IF files[1].fetchFails THEN <<files[1].filename>> ELSE <<>>)
       \o SkippedFiles(Tail(files))

RECURSIVE TotalComments(_)
TotalComments(processedFiles) ==
  IF Len(processedFiles) = 0 THEN 0
  ELSE Len(processedFiles[1].comments) + TotalComments(Tail(processedFiles))

TotalFilesModified(processedFiles) ==
  Cardinality({k \in 1..Len(processedFiles) :
                 processedFiles[k].modifiedContent # processedFiles[k].originalContent})

\* one request per comment of every processed file
RECURSIVE createPRCommentRequests(_)
createPRCommentRequests(processedFiles) ==
  IF Len(processedFiles) = 0 THEN <<>>
  ELSE [k \in 1..Len(processedFiles[1].comments) |->
          [filename |-> processedFiles[1].filename,
           line |-> processedFiles[1].comments[k].lineNumber,
           body |-> processedFiles[1].comments[k].content]]
       \o createPRCommentRequests(Tail(processedFiles))

\* the filter of commitModifiedFiles: an empty modifiedContent is falsy
ModifiedFiles(processedFiles) ==
  SelectSeq(processedFiles,
            LAMBDA file : /\ file.modifiedContent # <<>>
                          /\ file.modifiedContent # file.originalContent)

\* updateFiles and updateFile reach the API calls for this file
NeedsUpdate(file, dryRun) ==
  /\ Len(file.comments) > 0
  /\ ~dryRun
  /\ file.modifiedContent # <<>>
  /\ file.modifiedContent # file.originalContent

InitWorkflow ==
  /\ wf \in {[phase |-> "start", skipPRComments |-> sc, skipFileCommits |-> sf,
               dryRun |-> dr, listFails |-> lf, files |-> fl, processedFiles |-> <<>>,
               skippedFiles |-> <<>>, fileErrors |-> <<>>,
               totalComments |-> 0, totalFilesModified |-> 0, calls |-> <<>>,
               prCommentsCreated |-> 0, toUpdate |-> <<>>, u |-> 0, apiCalls |-> <<>>,
               filesCommitted |-> 0, errors |-> <<>>, success |-> FALSE] :
              sc \in BOOLEAN, sf \in BOOLEAN, dr \in BOOLEAN, lf \in BOOLEAN,
              fl \in ChangedFiles}
  /\ doc = <<>>
  /\ opts = DEFAULT_OPTIONS
  /\ pc = "workflow"
  /\ comments = <<>>
  /\ selected = <<>>
  /\ result = <<>>
  /\ comments2 = <<>>
  /\ optionsArg = NoOptions
  /\ batch = NoBatch
  /\ scan = NoScan

\* Phase 1 begins: fileProcessor.processFiles is called
StartProcessFiles ==
  /\ wf.phase = "start"
  /\ wf' = [wf EXCEPT !.phase = "processing", !.calls = Append(@, "processFiles")]
  /\ UNCHANGED <<detectorVars, batch, scan>>

\* processFiles throwing without an error being recorded
ProcessFilesThrows_NoError ==
  /\ wf.phase = "processing"
  /\ wf.listFails
  /\ wf' = [wf EXCEPT !.phase = "done"]
  /\ UNCHANGED <<detectorVars, batch, scan>>

\* processFiles throws: executeWorkflow catches and returns
ProcessFilesThrows ==
  /\ wf.phase = "processing"
  /\ wf.listFails
  /\ wf' = [wf EXCEPT !.phase = "done", !.errors = Append(@, "file-processing")]
  /\ UNCHANGED <<detectorVars, batch, scan>>

\* the workflow w once processFiles has returned processedFiles
Processed(w, processedFiles) ==
  [w EXCEPT !.phase = "phase2",
            !.processedFiles = processedFiles,
            !.skippedFiles = SkippedFiles(SupportedFiles(w.files)),
            !.fileErrors = SkippedFiles(SupportedFiles(w.files)),
            !.totalComments = TotalComments(processedFiles),
            !.totalFilesModified = TotalFilesModified(processedFiles),
            !.errors = @ \o Errors("file-processing",
                                   Len(SkippedFiles(SupportedFiles(w.files))))]

ProcessFilesReturns ==
  /\ wf.phase = "processing"
  /\ ~wf.listFails
  /\ \E processedFiles \in {ProcessedFiles(SupportedFiles(wf.files), wf.dryRun)} :
       wf' = Processed(wf, processedFiles)
  /\ UNCHANGED <<detectorVars, batch, scan>>

\* Phase 2 entered: commentCreator.createComments is called with the requests,
\* unless there are none
StartCreateComments ==
  /\ wf.phase = "phase2"
  /\ ~wf.skipPRComments /\ wf.totalComments > 0
  /\ wf' = IF Len(createPRCommentRequests(wf.processedFiles)) = 0
           THEN [wf EXCEPT !.phase = "phase3"]
           ELSE [wf EXCEPT !.phase = "creating", !.calls = Append(@, "createComments")]
  /\ batch' = IF Len(createPRCommentRequests(wf.processedFiles)) = 0
              THEN batch
              ELSE BatchCall(createPRCommentRequests(wf.processedFiles), wf.dryRun,
                             TRUE, maxRetries)
  /\ UNCHANGED <<detectorVars, scan>>

SkipCreateComments ==
  /\ wf.phase = "phase2"
  /\ ~(~wf.skipPRComments /\ wf.totalComments > 0)
  /\ wf' = [wf EXCEPT !.phase = "phase3"]
  /\ UNCHANGED <<detectorVars, batch, scan>>

\* createComments has returned its batch result to executeWorkflow
CreateCommentsReturns ==
  /\ wf.phase = "creating"
  /\ batch.phase = "returned"
  /\ wf' = [wf EXCEPT !.phase = "phase3",
                      !.calls = Append(@, "createComments returned"),
                      !.prCommentsCreated = batch.result.successfulComments,
                      !.errors = @ \o Errors("comment-creation",
                                             Len(batch.result.errors))]
  /\ UNCHANGED <<detectorVars, batch, scan>>

\* StartUpdateFiles entering Phase 3 whatever skipFileCommits says
StartUpdateFiles_IgnoreSkip ==
  /\ wf.phase = "phase3"
  /\ wf.totalFilesModified > 0
  /\ wf' = IF Len(ModifiedFiles(wf.processedFiles)) = 0
           THEN [wf EXCEPT !.phase = "done", !.success = Len(wf.errors) = 0]
           ELSE [wf EXCEPT !.phase = "committing", !.calls = Append(@, "updateFiles"),
                           !.toUpdate = ModifiedFiles(wf.processedFiles)]
  /\ UNCHANGED <<detectorVars, batch, scan>>

\* Phase 3 entered: fileProcessor.updateFiles is called with the modified
\* files, unless the filter leaves none
StartUpdateFiles ==
  /\ wf.phase = "phase3"
  /\ ~wf.skipFileCommits /\ wf.totalFilesModified > 0
  /\ wf' = IF Len(ModifiedFiles(wf.processedFiles)) = 0
           THEN [wf EXCEPT !.phase = "done", !.success = Len(wf.errors) = 0]
           ELSE [wf EXCEPT !.phase = "committing", !.calls = Append(@, "updateFiles"),
                           !.toUpdate = ModifiedFiles(wf.processedFiles)]
  /\ UNCHANGED <<detectorVars, batch, scan>>

SkipUpdateFiles ==
  /\ wf.phase = "phase3"
  /\ ~(~wf.skipFileCommits /\ wf.totalFilesModified > 0)
  /\ wf' = [wf EXCEPT !.phase = "done", !.success = Len(wf.errors) = 0]
  /\ UNCHANGED <<detectorVars, batch, scan>>

\* the loop of updateFiles is at file u
AtFile == wf.phase = "committing" /\ wf.u < Len(wf.toUpdate)

\* one round of the loop of updateFiles that does not throw: the file is
\* passed over, or fetched and written with createOrUpdateFileContents
UpdateFile ==
  /\ AtFile
  /\ wf' = IF NeedsUpdate(wf.toUpdate[wf.u + 1], wf.dryRun)
           THEN [wf EXCEPT !.u = @ + 1,
                           !.apiCalls = Append(@, [filename |-> wf.toUpdate[wf.u + 1].filename,
                                                   ok |-> TRUE])]
           ELSE [wf EXCEPT !.u = @ + 1]
  /\ UNCHANGED <<detectorVars, batch, scan>>

\* updateFile throws, at getContent or at createOrUpdateFileContents: the
\* loop is abandoned and commitModifiedFiles records the error
UpdateFileThrows ==
  /\ AtFile
  /\ NeedsUpdate(wf.toUpdate[wf.u + 1], wf.dryRun)
  /\ \E written \in BOOLEAN :
       wf' = [wf EXCEPT !.phase = "done",
                        !.calls = Append(@, "updateFiles threw"),
                        !.apiCalls = IF written
                                     THEN Append(@, [filename |-> wf.toUpdate[wf.u + 1].filename,
                                                     ok |-> FALSE])
                                     ELSE @,
                        !.errors = Append(@, "file-commit"),
                        !.success = FALSE]
  /\ UNCHANGED <<detectorVars, batch, scan>>

\* updateFiles returns: commitModifiedFiles reports every modified file as
\* committed
UpdateFilesReturns ==
  /\ wf.phase = "committing"
  /\ wf.u >= Len(wf.toUpdate)
  /\ wf' = [wf EXCEPT !.phase = "done",
                      !.calls = Append(@, "updateFiles returned"),
                      !.filesCommitted = Len(wf.toUpdate),
                      !.success = Len(wf.errors) = 0]
  /\ UNCHANGED <<detectorVars, batch, scan>>

NextWorkflow ==
  \/ StartProcessFiles
  \/ ProcessFilesThrows
  \/ ProcessFilesReturns
  \/ StartCreateComments
  \/ SkipCreateComments
  \/ BeginCreateComments
  \/ DryRunComment
  \/ ApiCallSucceeds
  \/ ApiCallFails
  \/ EndCreateComments
  \/ CreateCommentsReturns
  \/ StartUpdateFiles
  \/ SkipUpdateFiles
  \/ UpdateFile
  \/ UpdateFileThrows
  \/ UpdateFilesReturns

SpecWorkflow == InitWorkflow /\ [][NextWorkflow]_vars

\* the 1-based positions of the call named c in the calls made so far
CallsOf(c) == {i \in 1..Len(wf.calls) : wf.calls[i] = c}

\* C20: file processing is the first call of a run; when the run is over
\* createComments has been called exactly if skipPRComments is false and
\* comments were found; updateFiles is called only if skipFileCommits is false
\* and files were modified; and updateFiles is called only after createComments,
\* if called, has returned.
PhaseGatingAndOrder ==
  pc = "workflow" =>
    /\ Len(wf.calls) > 0 => wf.calls[1] = "processFiles"
    /\ wf.phase = "done" =>
         (CallsOf("createComments") # {}
            <=> (~wf.skipPRComments /\ wf.totalComments > 0))
    /\ CallsOf("updateFiles") # {} =>
         ~wf.skipFileCommits /\ wf.totalFilesModified > 0
    /\ \A u \in CallsOf("updateFiles") : \A c \in CallsOf("createComments") :
         \E r \in CallsOf("createComments returned") : c < r /\ r < u

\* a finished run in which comments were created and then files committed
PhaseGatingWitness ==
  /\ pc = "workflow"
  /\ wf.phase = "done"
  /\ wf.calls = <<"processFiles", "createComments", "createComments returned",
                  "updateFiles", "updateFiles returned">>

----------------------------------------------------------------------------
(* Properties of comment creation *)

\* the number of entries of the sequence q equal to x
Count(q, x) == Cardinality({k \in 1..Len(q) : q[k] = x})

\* C24: createComments handles every request once, in ascending order of file
\* name and line, whatever calls fail, and its result counts add up: successes
\* plus failures is the number of requests, with one created comment per
\* success and one error per failure.
BatchAccounting ==
  batch.phase = "returned" =>
    /\ Len(batch.handled) = Len(batch.requests)
    /\ \A k \in 1..Len(batch.requests) :
         Count(batch.handled, batch.requests[k]) = Count(batch.requests, batch.requests[k])
    /\ \A k \in 1..(Len(batch.handled) - 1) :
         \/ localeCompare(batch.handled[k].filename, batch.handled[k + 1].filename) < 0
         \/ /\ batch.handled[k].filename = batch.handled[k + 1].filename
            /\ batch.handled[k].line <= batch.handled[k + 1].line
    /\ batch.result.totalRequests = Len(batch.requests)
    /\ batch.result.successfulComments + batch.result.failedComments
         = batch.result.totalRequests
    /\ Len(batch.result.createdComments) = batch.result.successfulComments
    /\ Len(batch.result.errors) = batch.result.failedComments

\* a batch given out of order whose first call failed and whose second call
\* succeeded
BatchAccountingWitness ==
  /\ batch.phase = "returned"
  /\ batch.requests # batch.sortedRequests
  /\ Len(batch.apiCalls) = 2
  /\ ~batch.apiCalls[1].ok
  /\ batch.apiCalls[2].ok

\* C25: a request whose createReviewComment call failed is recorded as failed
\* only after as many calls as there are retry attempts, and a request with a
\* successful call is counted as successful.
RetryOnApiFailure ==
  batch.phase = "returned" =>
    \A k \in 1..Len(batch.apiCalls) :
      LET calls == {j \in 1..Len(batch.apiCalls) : batch.apiCalls[j].i = batch.apiCalls[k].i}
      IN IF \E j \in calls : batch.apiCalls[j].ok
         THEN Count(batch.result.createdComments,
                    batch.sortedRequests[batch.apiCalls[k].i + 1]) > 0
         ELSE Cardinality(calls) = RetryAttempts(batch)

----------------------------------------------------------------------------
(* Properties of the workflow *)

\* the errors each phase reported, in the order of the phases
ReportedErrors ==
  Errors("file-processing", IF wf.listFails THEN 1 ELSE Len(wf.fileErrors))
  \o Errors("comment-creation",
            IF batch.phase = "returned" THEN Len(batch.result.errors) ELSE 0)
  \o Errors("file-commit", Cardinality(CallsOf("updateFiles threw")))

\* the steps of the workflow other than the return of processFiles
StepsAfterProcessing ==
  \/ StartProcessFiles
  \/ ProcessFilesThrows
  \/ StartCreateComments
  \/ SkipCreateComments
  \/ BeginCreateComments
  \/ DryRunComment
  \/ ApiCallSucceeds
  \/ ApiCallFails
  \/ EndCreateComments
  \/ CreateCommentsReturns
  \/ StartUpdateFiles
  \/ SkipUpdateFiles
  \/ UpdateFile
  \/ UpdateFileThrows
  \/ UpdateFilesReturns

Names(files) == [k \in 1..Len(files) |-> files[k].filename]

\* the 1-based position of name x in the list of names q, 0 if absent
PositionIn(q, x) ==
  IF \E k \in 1..Len(q) : q[k] = x THEN CHOOSE k \in 1..Len(q) : q[k] = x ELSE 0

RECURSIVE SumComments(_)
SumComments(files) ==
  IF Len(files) = 0 THEN 0 ELSE Len(files[1].comments) + SumComments(Tail(files))

\* q lists some of the names of p, in the order of p
InOrderOf(q, p) ==
  \A i \in 1..Len(q) : \A j \in 1..Len(q) :
    i < j => 0 < PositionIn(p, q[i]) /\ PositionIn(p, q[i]) < PositionIn(p, q[j])

\* processFiles has returned its result to the workflow
ProcessFilesReturned ==
  pc = "workflow" /\ ~wf.listFails /\ wf.phase \notin {"start", "processing"}

\* C22: after processFiles every supported, non-removed changed file is in
\* exactly one of processedFiles and skippedFiles and no other file is in
\* either; the skipped files are those whose processing failed, with one
\* error each; totalComments is the sum of the comments of the processed
\* files; and the processed files keep the order of the changed files.
PerFileIsolation ==
  ProcessFilesReturned =>
    /\ \A k \in 1..Len(wf.files) :
         Count(Names(wf.processedFiles), wf.files[k].filename)
           + Count(wf.skippedFiles, wf.files[k].filename)
         = IF isSupportedFile(wf.files[k]) /\ wf.files[k].status # "removed"
           THEN 1 ELSE 0
    /\ \A k \in 1..Len(wf.files) :
         Count(wf.skippedFiles, wf.files[k].filename) = 1
           <=> /\ isSupportedFile(wf.files[k])
               /\ wf.files[k].status # "removed"
               /\ wf.files[k].fetchFails
    /\ Len(wf.fileErrors) = Len(wf.skippedFiles)
    /\ wf.totalComments = SumComments(wf.processedFiles)
    /\ InOrderOf(Names(wf.processedFiles), Names(wf.files))

\* the first file failed and the second was processed all the same
PerFileIsolationWitness ==
  /\ ProcessFilesReturned
  /\ wf.skippedFiles = <<FileNames[1]>>
  /\ Names(wf.processedFiles) = <<FileNames[2]>>
  /\ wf.totalComments > 0

\* the number of comments detected in the files that could be fetched
RECURSIVE DetectedIn(_)
DetectedIn(files) ==
  IF Len(files) = 0 THEN 0
  ELSE (IF files[1].fetchFails THEN 0
        ELSE Len(detectPRComments(files[1].content, DEFAULT_OPTIONS)))
       + DetectedIn(Tail(files))

\* C23: in a dry run no createReviewComment and no createOrUpdateFileContents
\* call is made, every processed file keeps its content, no file counts as
\* modified and updateFiles is never called, while the comments detected are
\* still counted and, where comments are posted, reported as created.
DryRunNoChanges ==
  (pc = "workflow" /\ wf.dryRun) =>
    /\ wf.apiCalls = <<>>
    /\ batch.phase # "none" => batch.apiCalls = <<>>
    /\ \A k \in 1..Len(wf.processedFiles) :
         wf.processedFiles[k].modifiedContent = wf.processedFiles[k].originalContent
    /\ wf.totalFilesModified = 0
    /\ CallsOf("updateFiles") = {}
    /\ (wf.phase = "done" /\ ~wf.listFails) =>
         /\ wf.totalComments = DetectedIn(SupportedFiles(wf.files))
         /\ ~wf.skipPRComments => wf.prCommentsCreated = wf.totalComments

\* a finished dry run that found comments and reported them as created
DryRunWitness ==
  /\ pc = "workflow"
  /\ wf.dryRun
  /\ wf.phase = "done"
  /\ wf.totalComments > 0
  /\ wf.prCommentsCreated = wf.totalComments
  /\ ~wf.skipFileCommits

\* C26: when executeWorkflow returns, filesCommitted is the number of files
\* for which createOrUpdateFileContents succeeded during the run.
FilesCommittedCount ==
  (pc = "workflow" /\ wf.phase = "done") =>
    wf.filesCommitted = Cardinality({k \in 1..Len(wf.apiCalls) : wf.apiCalls[k].ok})

----------------------------------------------------------------------------
(* Properties of the removal loop *)

\* annotation a of document d still describes the current document: its span
\* holds its text and, for a single annotation, its line is unchanged
Intact(d, current, a) ==
  /\ Substring(current, a.startIndex, a.endIndex) = a.fullMatch
  /\ a.type = "single" =>
       /\ a.lineNumber <= Len(Split(current))
       /\ Split(current)[a.lineNumber] = Split(d)[a.lineNumber]

\* every annotation is intact at the moment the loop of removePRComments
\* reaches it
RECURSIVE IntactWhenReached(_, _, _)
IntactWhenReached(d, current, sortedComments) ==
  \/ Len(sortedComments) = 0
  \/ /\ Intact(d, current, sortedComments[1])
     /\ IntactWhenReached(d, removePRComment(current, sortedComments[1]),
                          Tail(sortedComments))

\* C27: while removePRComments(doc, detectPRComments(doc)) works through the
\* annotations by descending endIndex, each annotation, when its turn comes,
\* still has its text at its span in the current document and, if single,
\* still has its own line at its line number.
RemovalOrderInvariant ==
  (pc = "removed" /\ selected = comments) =>
    IntactWhenReached(doc, doc, SortByEndDesc(comments))

----------------------------------------------------------------------------
(* One line: the single-line pass and the scan of isInsideStringLiteral *)

\* the pieces of text lines are assembled from: a comment opener, the three
\* quotes, a backslash and a carriage return
LineFragments ==
  << <<"/", "/", " ", "P", "R", ":">>, <<"'">>, <<"\"">>, <<Backtick>>, <<"\\">>,
     <<"\r">> >>

RECURSIVE FlattenLine(_)
FlattenLine(fs) ==
  IF Len(fs) = 0 THEN <<>> ELSE LineFragments[fs[1]] \o FlattenLine(Tail(fs))

\* every line of at most MaxLineFrags fragments
Lines ==
  {FlattenLine(fs) : fs \in UNION {[1..n -> 1..Len(LineFragments)] : n \in 0..MaxLineFrags}}

InitLine ==
  /\ scan \in {[phase |-> "line", line |-> l, position |-> 0, i |-> 0,
                 q |-> <<FALSE, FALSE, FALSE>>, result |-> FALSE, comments |-> <<>>] :
                l \in Lines}
  /\ doc = <<>>
  /\ opts = DEFAULT_OPTIONS
  /\ pc = "line"
  /\ comments = <<>>
  /\ selected = <<>>
  /\ result = <<>>
  /\ comments2 = <<>>
  /\ optionsArg = NoOptions
  /\ wf = NoWorkflow
  /\ batch = NoBatch

\* findSingleLineComments is applied to the line, as the first line of a document
FindSingleLineComments ==
  /\ scan.phase = "line"
  /\ scan' = [scan EXCEPT !.phase = "found",
                          !.comments = findSingleLineComments(scan.line, 1, 0, opts)]
  /\ UNCHANGED <<detectorVars, wf, batch>>

\* isInsideStringLiteral is entered for a position of the line
BeginScan ==
  /\ scan.phase = "line"
  /\ \E position \in 0..Len(scan.line) :
       scan' = [scan EXCEPT !.phase = "scanning", !.position = position]
  /\ UNCHANGED <<detectorVars, wf, batch>>

\* the flags after the round of the loop for the character at 0-based index i
ScanChar(line, i, q) == QuoteScan(Substring(line, 0, i + 1), i, q)

\* one round of the loop over beforePosition
ScanStep ==
  /\ scan.phase = "scanning"
  /\ scan.i < scan.position
  /\ scan' = [scan EXCEPT !.i = @ + 1, !.q = ScanChar(scan.line, scan.i, scan.q)]
  /\ UNCHANGED <<detectorVars, wf, batch>>

\* the loop is over: return inSingleQuote || inDoubleQuote || inBacktick
ScanReturns ==
  /\ scan.phase = "scanning"
  /\ scan.i >= scan.position
  /\ scan' = [scan EXCEPT !.phase = "returned",
                          !.result = scan.q[1] \/ scan.q[2] \/ scan.q[3]]
  /\ UNCHANGED <<detectorVars, wf, batch>>

NextLine == FindSingleLineComments \/ BeginScan \/ ScanStep \/ ScanReturns

SpecLine == InitLine /\ [][NextLine]_vars

----------------------------------------------------------------------------
(* Properties of one line *)

\* the scan of a line is under way or over
Scanning == pc = "line" /\ scan.phase \in {"scanning", "returned"}

\* C28: at every point of the scan the flags are those of a scan that skips
\* a quote only after an unescaped backslash and lets a quote after an escaped
\* backslash toggle, so that the value returned says whether the position
\* lies inside an open quote under that rule.
EscapeHandling ==
  Scanning =>
    /\ scan.q = LexicalScan(Substring(scan.line, 0, scan.i), 0, FALSE,
                            <<FALSE, FALSE, FALSE>>)
    /\ scan.phase = "returned" =>
         scan.result = LiesInsideString(scan.line, scan.position)

\* the flags that are set
OpenQuotes == {k \in 1..3 : scan.q[k]}

\* the flag of a quote character, 0 for any other character
QuoteKind(char) ==
  IF char = "'" THEN 1 ELSE IF char = "\"" THEN 2 ELSE IF char = Backtick THEN 3 ELSE 0

\* the next character of the scan is a quote of another kind than the open one
OtherQuoteNext ==
  /\ scan.phase = "scanning"
  /\ scan.i < scan.position
  /\ OpenQuotes # {}
  /\ QuoteKind(scan.line[scan.i + 1]) \notin OpenQuotes \cup {0}

\* C29: at every step of the scan at most one of the three flags is set, a
\* quote of another kind met while a flag is set leaves the three flags as
\* they are, and the value returned is true exactly when one flag is set at
\* the end of the scan.
QuotesDoNotNest ==
  Scanning =>
    /\ Cardinality(OpenQuotes) <= 1
    /\ OtherQuoteNext => ScanChar(scan.line, scan.i, scan.q) = scan.q
    /\ scan.phase = "returned" => (scan.result <=> Cardinality(OpenQuotes) = 1)

\* a double quote is open and an unescaped single quote comes next
QuotesDoNotNestWitness ==
  /\ pc = "line"
  /\ OtherQuoteNext
  /\ scan.q = <<FALSE, TRUE, FALSE>>
  /\ scan.line[scan.i + 1] = "'"
  /\ scan.line[scan.i] # "\\"

\* the first candidate match of the single-line pattern on the scanned line
FirstCandidate == SingleExec(scan.line, 0, opts)

====
